---- MODULE Spec2Model ----
(***************************************************************************)
(* Workload discovery exporter (src/src/discovery.go).                     *)
(*                                                                         *)
(* main registers four gauges, builds the cluster client, starts the       *)
(* metrics HTTP server in a goroutine and then loops forever:              *)
(* updateMetrics, sleep.  updateMetrics lists all pods, resets the gauges, *)
(* execs `cat /etc/os-release` in every container, folds the results into  *)
(* three count maps and a counter, and sets the gauges from them.          *)
(*                                                                         *)
(* Go strings are TLA+ strings; the string functions of package strings    *)
(* are operators over them.  A Go map is a function with a finite domain.  *)
(***************************************************************************)
EXTENDS Integers, Sequences, FiniteSets, TLC

VARIABLES
    pc,                      \* position of the main goroutine
    serving,                 \* the metrics server goroutine has been started
    cycle,                   \* number of updateMetrics calls issued so far
    pods,                    \* pods.Items of the current updateMetrics call
    pi,                      \* index of the pod the outer loop is at
    ci,                      \* index of the container the inner loop is at
    namespaceMap,            \* local map of updateMetrics
    imageMap,                \* local map of updateMetrics
    baseTypeMap,             \* local map of updateMetrics
    fipsCount,               \* local counter of updateMetrics
    podsPerNamespace,        \* gauge vector pods_per_namespace
    containerImageCount,     \* gauge vector container_image_count
    containerBaseImageType,  \* gauge vector container_base_image_type
    containersFipsCompliant, \* gauge containers_fips_compliant
    inspectLog,              \* getContainerDetails calls of the current cycle
    outcomes,                \* what each of those calls met, in call order
    cur,                     \* record of the last cycle that published
    prev,                    \* record of the published cycle before cur
    scraped,                 \* what the last scrape of /metrics saw
    exitStatus,              \* exit status of the process, -1 while it runs
    sleeps,                  \* time.Sleep calls that have returned
    requests,                \* requests the current cycle sent to the cluster
    sinkOps,                 \* gauge operations the current cycle has made
    q,                       \* input of a stand-alone classification
    r                        \* its result

vars == <<pc, serving, cycle, pods, pi, ci, namespaceMap, imageMap,
          baseTypeMap, fipsCount, podsPerNamespace, containerImageCount,
          containerBaseImageType, containersFipsCompliant, inspectLog,
          outcomes, cur, prev, scraped, exitStatus, sleeps, requests,
          sinkOps, q, r>>

(***************************************************************************)
(* Bounds.                                                                 *)
(***************************************************************************)
\* updateMetrics calls explored per behaviour (the loop itself is endless).
MaxCycles == 2

(***************************************************************************)
(* Package strings.                                                        *)
(***************************************************************************)
UpperLetters == "ABCDEFGHIJKLMNOPQRSTUVWXYZ"

LowerLetters == "abcdefghijklmnopqrstuvwxyz"

\* the character of s at position i, as a string of length 1
CharAt(s, i) == SubSeq(s, i, i)

IndexIn(alphabet, c) ==
    IF \E i \in 1..Len(alphabet) : CharAt(alphabet, i) = c
    THEN CHOOSE i \in 1..Len(alphabet) : CharAt(alphabet, i) = c
    ELSE 0

\* the lower-case letter of every upper-case letter
LowerOf ==
    [c \in {CharAt(UpperLetters, i) : i \in 1..Len(UpperLetters)} |->
        CharAt(LowerLetters, IndexIn(UpperLetters, c))]

ToLowerChar(c) == IF c \in DOMAIN LowerOf THEN LowerOf[c] ELSE c

RECURSIVE ToLower(_)
ToLower(s) ==
    IF Len(s) = 0 THEN ""
    ELSE ToLowerChar(CharAt(s, 1)) \o ToLower(SubSeq(s, 2, Len(s)))

Contains(s, substr) ==
    \E i \in 1..(Len(s) - Len(substr) + 1) :
        SubSeq(s, i, i + Len(substr) - 1) = substr

HasPrefix(s, prefix) ==
    /\ Len(s) >= Len(prefix)
    /\ SubSeq(s, 1, Len(prefix)) = prefix

TrimPrefix(s, prefix) ==
    IF HasPrefix(s, prefix) THEN SubSeq(s, Len(prefix) + 1, Len(s)) ELSE s

RECURSIVE TrimLeft(_, _)
TrimLeft(s, c) ==
    IF Len(s) > 0 /\ CharAt(s, 1) = c
    THEN TrimLeft(SubSeq(s, 2, Len(s)), c)
    ELSE s

RECURSIVE TrimRight(_, _)
TrimRight(s, c) ==
    IF Len(s) > 0 /\ CharAt(s, Len(s)) = c
    THEN TrimRight(SubSeq(s, 1, Len(s) - 1), c)
    ELSE s

\* strings.Trim with a cutset of one character
Trim(s, c) == TrimRight(TrimLeft(s, c), c)

\* strings.Split(s, sep) for a separator of one character
RECURSIVE Split(_, _)
Split(s, sep) ==
    IF \E i \in 1..Len(s) : CharAt(s, i) = sep
    THEN LET i == CHOOSE k \in 1..Len(s) :
                    /\ CharAt(s, k) = sep
                    /\ \A j \in 1..(k - 1) : CharAt(s, j) # sep
         IN  <<SubSeq(s, 1, i - 1)>> \o Split(SubSeq(s, i + 1, Len(s)), sep)
    ELSE <<s>>

(***************************************************************************)
(* Classification: parseOsRelease, isFipsCompliant, isFipsFromImageName.   *)
(***************************************************************************)
\* the list without its first, generic entry
fipsIndicatorsSpecificOnly == <<"ubi8-fips", "debian:fips", "chainguard:fips">>

fipsIndicators == <<"fips", "ubi8-fips", "debian:fips", "chainguard:fips">>

isFipsFromImageName(image) ==
    LET lowerImage == ToLower(image)
    IN  \E k \in 1..Len(fipsIndicators) : Contains(lowerImage, fipsIndicators[k])

\* isFipsCompliant without the strings.ToLower of the content
isFipsCompliantCaseSensitive(osRelease, image) ==
    IF \/ Contains(osRelease, "fips_mode=yes")
       \/ Contains(osRelease, "fips=1")
    THEN TRUE
    ELSE isFipsFromImageName(image)

isFipsCompliant(osRelease, image) ==
    LET lowerOsRelease == ToLower(osRelease)
    IN  IF \/ Contains(lowerOsRelease, "fips_mode=yes")
           \/ Contains(lowerOsRelease, "fips=1")
        THEN TRUE
        ELSE isFipsFromImageName(image)

\* the switch with a case for ubuntu ahead of the others
BaseTypeOfWithUbuntu(value) ==
    IF Contains(value, "ubuntu") THEN "Ubuntu"
    ELSE IF Contains(value, "debian") THEN "Debian"
    ELSE IF Contains(value, "alpine") THEN "Alpine"
    ELSE IF \/ Contains(value, "centos")
            \/ Contains(value, "rhel")
            \/ Contains(value, "ubi") THEN "RHEL"
    ELSE IF Contains(value, "wolfi") THEN "Chainguard"
    ELSE "Other"

\* the switch of parseOsRelease on the trimmed value
BaseTypeOf(value) ==
    IF Contains(value, "debian") THEN "Debian"
    ELSE IF Contains(value, "alpine") THEN "Alpine"
    ELSE IF \/ Contains(value, "centos")
            \/ Contains(value, "rhel")
            \/ Contains(value, "ubi") THEN "RHEL"
    ELSE IF Contains(value, "wolfi") THEN "Chainguard"
    ELSE "Other"

\* only id= lines taken as identity lines
IsIdentityLineIdOnly(line) ==
    LET lowerLine == ToLower(line)
    IN  HasPrefix(lowerLine, "id=")

\* a line the loop of parseOsRelease returns at
IsIdentityLine(line) ==
    LET lowerLine == ToLower(line)
    IN  HasPrefix(lowerLine, "id=") \/ HasPrefix(lowerLine, "name=")

\* parseOsRelease matching the lines as they are, without strings.ToLower
parseOsReleaseCaseSensitive(content) ==
    LET lines == Split(content, "\n")
        hits  == {i \in 1..Len(lines) :
                     HasPrefix(lines[i], "id=") \/ HasPrefix(lines[i], "name=")}
    IN  IF hits = {} THEN "Unknown"
        ELSE LET first == CHOOSE i \in hits : \A j \in hits : i <= j
                 value == Trim(TrimPrefix(TrimPrefix(lines[first], "id="),
                                          "name="), "\"")
             IN  BaseTypeOf(value)

\* parseOsRelease deciding on the last identity line
parseOsReleaseLastLine(content) ==
    LET lines == Split(content, "\n")
        hits  == {i \in 1..Len(lines) : IsIdentityLine(lines[i])}
    IN  IF hits = {} THEN "Unknown"
        ELSE LET last      == CHOOSE i \in hits : \A j \in hits : i >= j
                 lowerLine == ToLower(lines[last])
                 value     == Trim(TrimPrefix(TrimPrefix(lowerLine, "id="),
                                              "name="), "\"")
             IN  BaseTypeOf(value)

\* parseOsRelease cutting the first and last character off the value
parseOsReleaseSlicingQuotes(content) ==
    LET lines == Split(content, "\n")
        hits  == {i \in 1..Len(lines) : IsIdentityLine(lines[i])}
    IN  IF hits = {} THEN "Unknown"
        ELSE LET first     == CHOOSE i \in hits : \A j \in hits : i <= j
                 lowerLine == ToLower(lines[first])
                 value     == TrimPrefix(TrimPrefix(lowerLine, "id="), "name=")
             IN  BaseTypeOf(SubSeq(value, 2, Len(value) - 1))

parseOsRelease(content) ==
    LET lines == Split(content, "\n")
        hits  == {i \in 1..Len(lines) : IsIdentityLine(lines[i])}
    IN  IF hits = {} THEN "Unknown"
        ELSE LET first     == CHOOSE i \in hits : \A j \in hits : i <= j
                 lowerLine == ToLower(lines[first])
                 value     == Trim(TrimPrefix(TrimPrefix(lowerLine, "id="),
                                              "name="), "\"")
             IN  BaseTypeOf(value)

(***************************************************************************)
(* getContainerDetails.  What the exec of `cat /etc/os-release` meets is   *)
(* the environment's choice: the executor cannot be created, the stream    *)
(* ends with an error, or the stream delivers the file content.            *)
(***************************************************************************)
ExecutorError == [kind |-> "executor_error", content |-> ""]

StreamError == [kind |-> "stream_error", content |-> ""]

Delivered(content) == [kind |-> "ok", content |-> content]

getContainerDetails(outcome, image) ==
    IF outcome.kind = "executor_error"
    THEN [baseType |-> "Unknown", isFips |-> FALSE]
    ELSE IF outcome.kind = "stream_error"
    THEN [baseType |-> "Unknown", isFips |-> isFipsFromImageName(image)]
    ELSE [baseType |-> parseOsRelease(outcome.content),
          isFips   |-> isFipsCompliant(outcome.content, image)]

(***************************************************************************)
(* Go maps and the values the gauges hold.                                 *)
(***************************************************************************)
EmptyMap == [k \in {} |-> 0]

\* m[k] = 1 in place of m[k]++
IncOverwrite(m, k) ==
    [x \in (DOMAIN m) \cup {k} |-> IF x = k THEN 1 ELSE m[x]]

\* m[k]++
Inc(m, k) ==
    [x \in (DOMAIN m) \cup {k} |->
        IF x = k THEN (IF k \in DOMAIN m THEN m[k] ELSE 0) + 1 ELSE m[x]]

\* vec.WithLabelValues(k).Set(v)
SetLabel(vec, k, v) ==
    [x \in (DOMAIN vec) \cup {k} |-> IF x = k THEN v ELSE vec[x]]

\* what a scrape of /metrics reads
Visible ==
    [ns       |-> podsPerNamespace,
     image    |-> containerImageCount,
     baseType |-> containerBaseImageType,
     fips     |-> containersFipsCompliant]

\* the gauges as registered: no label combination, scalar gauge 0
InitialSnap ==
    [ns |-> EmptyMap, image |-> EmptyMap, baseType |-> EmptyMap, fips |-> 0]

\* the AggregateSnapshot held by the locals of updateMetrics
Snapshot ==
    [ns       |-> namespaceMap,
     image    |-> imageMap,
     baseType |-> baseTypeMap,
     fips     |-> fipsCount]

(***************************************************************************)
(* The environment: what the cluster answers.                              *)
(***************************************************************************)
Container(name, image) == [name |-> name, image |-> image]

Pod(ns, name, containers) == [ns |-> ns, name |-> name, containers |-> containers]

PlainImage == "myregistry/app:1.0"

FipsImage == "registry/app-fips:2.0"

ListingEmpty == <<>>

ListingA == <<Pod("default", "web", <<Container("app", PlainImage)>>)>>

ListingB ==
    <<Pod("prod", "api", <<Container("app", FipsImage),
                           Container("sidecar", PlainImage)>>),
      Pod("prod", "job", <<>>)>>

Listings == {ListingEmpty, ListingA, ListingB}

\* what a stream that was started can end with
StreamOutcomes == {StreamError, Delivered("ID=debian\nFIPS=1")}

NoCycle == [at |-> 0, pods |-> <<>>, outcomes |-> <<>>, snap |-> InitialSnap]

NoScrape == [seen |-> InitialSnap, expected |-> InitialSnap]

NoQuery == [outcome |-> ExecutorError, image |-> "", on |-> "none", lo |-> 1, hi |-> 0]

NoDetails == [baseType |-> "", isFips |-> FALSE]

NoResult == [done |-> FALSE, res |-> NoDetails, vres |-> NoDetails]

(***************************************************************************)
(* main and updateMetrics.                                                 *)
(***************************************************************************)
locals == <<pods, pi, ci, namespaceMap, imageMap, baseTypeMap, fipsCount>>

gauges == <<podsPerNamespace, containerImageCount, containerBaseImageType,
            containersFipsCompliant>>

ghosts == <<inspectLog, outcomes, cur, prev>>

trace == <<exitStatus, sleeps, requests, sinkOps>>

\* cmd of getContainerDetails
cmd == <<"cat", "/etc/os-release">>

\* clientset.CoreV1().Pods("").List
ListRequest ==
    [op |-> "list", ns |-> "", pod |-> "", container |-> "", cmd |-> <<>>]

\* the request built with the image in place of the container name
ExecRequestByImage(pod, container) ==
    [op |-> "exec", ns |-> pod.ns, pod |-> pod.name,
     container |-> container.image, cmd |-> cmd]

\* the exec subresource request getContainerDetails builds
ExecRequest(pod, container) ==
    [op |-> "exec", ns |-> pod.ns, pod |-> pod.name,
     container |-> container.name, cmd |-> cmd]

Init ==
    /\ pc = "boot"
    /\ serving = FALSE
    /\ cycle = 0
    /\ pods = <<>>
    /\ pi = 0
    /\ ci = 0
    /\ namespaceMap = EmptyMap
    /\ imageMap = EmptyMap
    /\ baseTypeMap = EmptyMap
    /\ fipsCount = 0
    /\ podsPerNamespace = EmptyMap
    /\ containerImageCount = EmptyMap
    /\ containerBaseImageType = EmptyMap
    /\ containersFipsCompliant = 0
    /\ inspectLog = <<>>
    /\ outcomes = <<>>
    /\ cur = NoCycle
    /\ prev = NoCycle
    /\ scraped = NoScrape
    /\ exitStatus = -1
    /\ sleeps = 0
    /\ requests = <<>>
    /\ sinkOps = 0
    /\ q = NoQuery
    /\ r = NoResult

\* main waiting for the first tick before the first updateMetrics
StartupWaitingFirst ==
    /\ pc = "boot"
    /\ \E failure \in {"none", "config", "client"} :
          IF failure = "none"
          THEN pc' = "sleep" /\ serving' = TRUE /\ UNCHANGED exitStatus
          ELSE pc' = "exited" /\ exitStatus' = 1 /\ UNCHANGED serving
    /\ UNCHANGED <<cycle, locals, gauges, ghosts, scraped, sleeps, requests,
                   sinkOps, q, r>>

\* main starting the metrics server before it builds the client
StartupServingFirst ==
    /\ pc = "boot"
    /\ \E failure \in {"none", "config", "client"} :
          IF failure = "none"
          THEN pc' = "idle" /\ serving' = TRUE /\ UNCHANGED exitStatus
          ELSE pc' = "exited" /\ exitStatus' = 1 /\ serving' = TRUE
    /\ UNCHANGED <<cycle, locals, gauges, ghosts, scraped, sleeps, requests,
                   sinkOps, q, r>>

\* main up to the loop: the in-cluster config or the client may fail
\* (log.Fatalf), otherwise the metrics server goroutine is started
Startup ==
    /\ pc = "boot"
    /\ \E failure \in {"none", "config", "client"} :
          IF failure = "none"
          THEN pc' = "idle" /\ serving' = TRUE /\ UNCHANGED exitStatus
          ELSE pc' = "exited" /\ exitStatus' = 1 /\ UNCHANGED serving
    /\ UNCHANGED <<cycle, locals, gauges, ghosts, scraped, sleeps, requests,
                   sinkOps, q, r>>

\* the promhttp handler serves the current gauge values
Scrape ==
    /\ serving
    /\ pc # "exited"
    /\ scraped' = [seen |-> Visible, expected |-> cur.snap]
    /\ UNCHANGED <<pc, serving, cycle, locals, gauges, ghosts, trace, q, r>>

\* the error return placed after the resets
ListFailedResetting ==
    /\ pc' = "sleep"
    /\ podsPerNamespace' = EmptyMap
    /\ containerImageCount' = EmptyMap
    /\ containerBaseImageType' = EmptyMap
    /\ containersFipsCompliant' = 0
    /\ UNCHANGED locals

\* the error return placed after the make statements
ListFailedAfterMakeMaps ==
    /\ pc' = "sleep"
    /\ namespaceMap' = EmptyMap
    /\ imageMap' = EmptyMap
    /\ baseTypeMap' = EmptyMap
    /\ fipsCount' = 0
    /\ UNCHANGED <<pods, pi, ci, gauges>>

\* the List error reported with log.Fatalf
ListFailedFatal ==
    /\ pc' = "exited"
    /\ UNCHANGED <<locals, gauges>>

\* updateMetrics when List returned an error: log and return
ListFailed ==
    /\ pc' = "sleep"
    /\ UNCHANGED <<locals, gauges>>

\* updateMetrics started by a timer, whatever the previous call is doing
ListPodsOverlapping ==
    /\ pc \notin {"boot", "exited"}
    /\ cycle < MaxCycles
    /\ cycle' = cycle + 1
    /\ \/ ListFailed
       \/ /\ \E items \in Listings : pods' = items
          /\ pc' = "reset_ns"
          /\ UNCHANGED <<pi, ci, namespaceMap, imageMap, baseTypeMap,
                         fipsCount, gauges>>
    /\ requests' = <<ListRequest>>
    /\ sinkOps' = 0
    /\ UNCHANGED <<serving, ghosts, scraped, exitStatus, sleeps, q, r>>

\* updateMetrics up to the first Reset
ListPods ==
    /\ pc = "idle"
    /\ cycle < MaxCycles
    /\ cycle' = cycle + 1
    /\ \/ ListFailed
       \/ /\ \E items \in Listings : pods' = items
          /\ pc' = "reset_ns"
          /\ UNCHANGED <<pi, ci, namespaceMap, imageMap, baseTypeMap,
                         fipsCount, gauges>>
    /\ requests' = <<ListRequest>>
    /\ sinkOps' = 0
    /\ UNCHANGED <<serving, ghosts, scraped, exitStatus, sleeps, q, r>>

\* updateMetrics without podsPerNamespace.Reset()
ResetNamespaceSkipped ==
    /\ pc = "reset_ns"
    /\ pc' = "reset_img"
    /\ UNCHANGED <<serving, cycle, locals, gauges, ghosts, scraped, trace, q, r>>

ResetNamespace ==
    /\ pc = "reset_ns"
    /\ podsPerNamespace' = EmptyMap
    /\ pc' = "reset_img"
    /\ sinkOps' = sinkOps + 1
    /\ UNCHANGED <<serving, cycle, locals, containerImageCount,
                   containerBaseImageType, containersFipsCompliant, ghosts,
                   scraped, exitStatus,
                   sleeps, requests, q, r>>

ResetImage ==
    /\ pc = "reset_img"
    /\ containerImageCount' = EmptyMap
    /\ pc' = "reset_base"
    /\ sinkOps' = sinkOps + 1
    /\ UNCHANGED <<serving, cycle, locals, podsPerNamespace,
                   containerBaseImageType, containersFipsCompliant, ghosts,
                   scraped, exitStatus,
                   sleeps, requests, q, r>>

ResetBaseType ==
    /\ pc = "reset_base"
    /\ containerBaseImageType' = EmptyMap
    /\ pc' = "reset_fips"
    /\ sinkOps' = sinkOps + 1
    /\ UNCHANGED <<serving, cycle, locals, podsPerNamespace,
                   containerImageCount, containersFipsCompliant, ghosts,
                   scraped, exitStatus,
                   sleeps, requests, q, r>>

\* the maps and the counter kept from the previous call
MakeMapsKeepingOld ==
    UNCHANGED <<namespaceMap, imageMap, baseTypeMap, fipsCount>>

\* the four make/:= statements that start the aggregation
MakeMaps ==
    /\ namespaceMap' = EmptyMap
    /\ imageMap' = EmptyMap
    /\ baseTypeMap' = EmptyMap
    /\ fipsCount' = 0

\* containersFipsCompliant.Set(0), then the locals, then the loop head
ResetFips ==
    /\ pc = "reset_fips"
    /\ containersFipsCompliant' = 0
    /\ MakeMaps
    /\ pi' = 1
    /\ ci' = 0
    /\ inspectLog' = <<>>
    /\ outcomes' = <<>>
    /\ pc' = "pod"
    /\ sinkOps' = sinkOps + 1
    /\ UNCHANGED <<serving, cycle, pods, podsPerNamespace, containerImageCount,
                   containerBaseImageType, cur, prev, scraped, exitStatus,
                   sleeps, requests, q, r>>

\* the namespace counted only for a pod that has containers
NextPodSkippingEmpty ==
    /\ pc = "pod"
    /\ pi <= Len(pods)
    /\ namespaceMap' = IF Len(pods[pi].containers) = 0
                       THEN namespaceMap
                       ELSE Inc(namespaceMap, pods[pi].ns)
    /\ ci' = 1
    /\ pc' = "container"
    /\ UNCHANGED <<serving, cycle, pods, pi, imageMap, baseTypeMap, fipsCount,
                   gauges, ghosts, scraped, trace, q, r>>

\* head of the loop over pods.Items
NextPod ==
    /\ pc = "pod"
    /\ pi <= Len(pods)
    /\ namespaceMap' = Inc(namespaceMap, pods[pi].ns)
    /\ ci' = 1
    /\ pc' = "container"
    /\ UNCHANGED <<serving, cycle, pods, pi, imageMap, baseTypeMap, fipsCount,
                   gauges, ghosts, scraped, trace, q, r>>

LoopEnd ==
    /\ pc = "pod"
    /\ pi > Len(pods)
    /\ pc' = "set_ns"
    /\ UNCHANGED <<serving, cycle, locals, gauges, ghosts, scraped, trace, q, r>>

\* baseTypeMap[baseType]++; if isFips { fipsCount++ }
Fold(outcome) ==
    LET d == getContainerDetails(outcome, pods[pi].containers[ci].image)
    IN  /\ baseTypeMap' = Inc(baseTypeMap, d.baseType)
        /\ fipsCount' = fipsCount + (IF d.isFips THEN 1 ELSE 0)
        /\ outcomes' = Append(outcomes, outcome)

\* the stream started without waiting for it to return
InspectContainerAsync ==
    /\ pc = "container"
    /\ ci <= Len(pods[pi].containers)
    /\ imageMap' = Inc(imageMap, pods[pi].containers[ci].image)
    /\ inspectLog' = Append(inspectLog, <<pi, ci>>)
    /\ \E created \in BOOLEAN :
          IF created
          THEN /\ pc' = "container"
               /\ ci' = ci + 1
               /\ requests' = Append(requests, ExecRequest(pods[pi],
                                          pods[pi].containers[ci]))
               /\ UNCHANGED <<baseTypeMap, fipsCount, outcomes>>
          ELSE /\ Fold(ExecutorError)
               /\ UNCHANGED requests
               /\ ci' = ci + 1
               /\ pc' = "container"
    /\ UNCHANGED <<serving, cycle, pods, pi, namespaceMap, gauges, cur, prev,
                   scraped, exitStatus,
                   sleeps, sinkOps, q, r>>

\* head of the loop over pod.Spec.Containers, up to the blocking stream call
InspectContainer ==
    /\ pc = "container"
    /\ ci <= Len(pods[pi].containers)
    /\ imageMap' = Inc(imageMap, pods[pi].containers[ci].image)
    /\ inspectLog' = Append(inspectLog, <<pi, ci>>)
    /\ \E created \in BOOLEAN :
          IF created
          THEN /\ pc' = "stream"
               /\ requests' = Append(requests, ExecRequest(pods[pi],
                                          pods[pi].containers[ci]))
               /\ UNCHANGED <<ci, baseTypeMap, fipsCount, outcomes>>
          ELSE /\ Fold(ExecutorError)
               /\ UNCHANGED requests
               /\ ci' = ci + 1
               /\ pc' = "container"
    /\ UNCHANGED <<serving, cycle, pods, pi, namespaceMap, gauges, cur, prev,
                   scraped, exitStatus,
                   sleeps, sinkOps, q, r>>

\* a failed stream ends the loop over the pod's containers
AfterStreamAborting(outcome) ==
    /\ ci' = IF outcome.kind = "stream_error"
             THEN Len(pods[pi].containers) + 1
             ELSE ci + 1
    /\ pc' = "container"
    /\ UNCHANGED inspectLog

\* where the loop goes once a stream has returned with this outcome
AfterStream(outcome) ==
    /\ ci' = ci + 1
    /\ pc' = "container"
    /\ UNCHANGED inspectLog

\* exec.StreamWithContext returns; a stream that hangs never does
StreamReturn ==
    /\ pc = "stream"
    /\ \E outcome \in StreamOutcomes :
          /\ Fold(outcome)
          /\ AfterStream(outcome)
    /\ UNCHANGED <<serving, cycle, pods, pi, namespaceMap, imageMap, gauges,
                   cur, prev, scraped, trace, q, r>>

PodDone ==
    /\ pc = "container"
    /\ ci > Len(pods[pi].containers)
    /\ pi' = pi + 1
    /\ pc' = "pod"
    /\ UNCHANGED <<serving, cycle, pods, ci, namespaceMap, imageMap,
                   baseTypeMap, fipsCount, gauges, ghosts, scraped, trace, q, r>>

\* one iteration of `for ns, count := range namespaceMap` (any order)
SetNamespace ==
    /\ pc = "set_ns"
    /\ \E ns \in (DOMAIN namespaceMap) \ (DOMAIN podsPerNamespace) :
          podsPerNamespace' = SetLabel(podsPerNamespace, ns, namespaceMap[ns])
    /\ sinkOps' = sinkOps + 1
    /\ UNCHANGED <<pc, serving, cycle, locals, containerImageCount,
                   containerBaseImageType, containersFipsCompliant, ghosts,
                   scraped, exitStatus,
                   sleeps, requests, q, r>>

SetNamespaceDone ==
    /\ pc = "set_ns"
    /\ (DOMAIN namespaceMap) \subseteq (DOMAIN podsPerNamespace)
    /\ pc' = "set_img"
    /\ UNCHANGED <<serving, cycle, locals, gauges, ghosts, scraped, trace, q, r>>

\* one iteration of `for img, count := range imageMap`
SetImage ==
    /\ pc = "set_img"
    /\ \E img \in (DOMAIN imageMap) \ (DOMAIN containerImageCount) :
          containerImageCount' = SetLabel(containerImageCount, img, imageMap[img])
    /\ sinkOps' = sinkOps + 1
    /\ UNCHANGED <<pc, serving, cycle, locals, podsPerNamespace,
                   containerBaseImageType, containersFipsCompliant, ghosts,
                   scraped, exitStatus,
                   sleeps, requests, q, r>>

SetImageDone ==
    /\ pc = "set_img"
    /\ (DOMAIN imageMap) \subseteq (DOMAIN containerImageCount)
    /\ pc' = "set_base"
    /\ UNCHANGED <<serving, cycle, locals, gauges, ghosts, scraped, trace, q, r>>

\* one iteration of `for baseType, count := range baseTypeMap`
SetBaseType ==
    /\ pc = "set_base"
    /\ \E bt \in (DOMAIN baseTypeMap) \ (DOMAIN containerBaseImageType) :
          containerBaseImageType' =
              SetLabel(containerBaseImageType, bt, baseTypeMap[bt])
    /\ sinkOps' = sinkOps + 1
    /\ UNCHANGED <<pc, serving, cycle, locals, podsPerNamespace,
                   containerImageCount, containersFipsCompliant, ghosts,
                   scraped, exitStatus,
                   sleeps, requests, q, r>>

SetBaseTypeDone ==
    /\ pc = "set_base"
    /\ (DOMAIN baseTypeMap) \subseteq (DOMAIN containerBaseImageType)
    /\ pc' = "set_fips"
    /\ UNCHANGED <<serving, cycle, locals, gauges, ghosts, scraped, trace, q, r>>

\* containersFipsCompliant.Set(fipsCount), log, return
SetFips ==
    /\ pc = "set_fips"
    /\ containersFipsCompliant' = fipsCount
    /\ cur' = [at |-> cycle, pods |-> pods, outcomes |-> outcomes,
               snap |-> Snapshot]
    /\ prev' = cur
    /\ pc' = "sleep"
    /\ sinkOps' = sinkOps + 1
    /\ UNCHANGED <<serving, cycle, locals, podsPerNamespace,
                   containerImageCount, containerBaseImageType, inspectLog,
                   outcomes, scraped, exitStatus,
                   sleeps, requests, q, r>>

\* the wait also giving up a stream that has not returned by the next tick
SleepOrCycleDeadline ==
    /\ pc \in {"sleep", "stream"}
    /\ pc' = "idle"
    /\ sleeps' = sleeps + 1
    /\ UNCHANGED <<serving, cycle, locals, gauges, ghosts, scraped, exitStatus,
                   requests, sinkOps, q, r>>

\* time.Sleep(30 * time.Second)
Sleep ==
    /\ pc = "sleep"
    /\ pc' = "idle"
    /\ sleeps' = sleeps + 1
    /\ UNCHANGED <<serving, cycle, locals, gauges, ghosts, scraped, exitStatus,
                   requests, sinkOps, q, r>>

Next ==
    \/ Startup
    \/ Scrape
    \/ ListPods
    \/ ResetNamespace
    \/ ResetImage
    \/ ResetBaseType
    \/ ResetFips
    \/ NextPod
    \/ LoopEnd
    \/ InspectContainer
    \/ StreamReturn
    \/ PodDone
    \/ SetNamespace
    \/ SetNamespaceDone
    \/ SetImage
    \/ SetImageDone
    \/ SetBaseType
    \/ SetBaseTypeDone
    \/ SetFips
    \/ Sleep

Spec == Init /\ [][Next]_vars

\* the steps of the main goroutine that wait for no answer of the cluster:
\* everything but the List call and the return of an exec stream
MainSteps ==
    \/ Startup
    \/ ResetNamespace
    \/ ResetImage
    \/ ResetBaseType
    \/ ResetFips
    \/ NextPod
    \/ LoopEnd
    \/ InspectContainer
    \/ PodDone
    \/ SetNamespace
    \/ SetNamespaceDone
    \/ SetImage
    \/ SetImageDone
    \/ SetBaseType
    \/ SetBaseTypeDone
    \/ SetFips
    \/ Sleep

\* the main goroutine alone: no scrape changes anything it reads
MainNext ==
    \/ MainSteps
    \/ ListPods
    \/ StreamReturn

\* the main goroutine is scheduled and time.Sleep returns; whether a call
\* to the cluster returns is left to the cluster
SpecLive == Init /\ [][MainNext]_vars /\ WF_vars(MainSteps)

TypeOK ==
    /\ pc \in {"boot", "exited", "idle", "reset_ns", "reset_img", "reset_base",
               "reset_fips", "pod", "container", "stream", "set_ns", "set_img",
               "set_base", "set_fips", "sleep"}
    /\ cycle \in 0..MaxCycles

(***************************************************************************)
(* Stand-alone classification: getContainerDetails applied to one inspec-  *)
(* tion outcome and image reference, and to the same input with the letter *)
(* case of a segment of the content or of the image reference swapped.     *)
(***************************************************************************)
UbuntuContent == "ID=\"ubuntu\"\nNAME=\"Ubuntu\""

Contents ==
    {UbuntuContent,
     "NAME=\"Debian GNU\"\nID=debian",
     "ID=alpine\nFIPS_MODE=yes",
     "",
     "PRETTY=x\nNAME=Wolfi\nID=debian",
     "ID=\"rhel\"\nfips=1",
     "VERSION=9\nFips=1",
     "Name=\"UBI minimal\"",
     "id=name=centos",
     "ID=fedora",
     "NAME=Fedora\nID=rhel",
     "NAME=\"Alpine on Debian\""}

Images ==
    {PlainImage, FipsImage, "quay.io/UBI8-FIPS", "Debian:Fips", "nginx"}

ClassifyOutcomes ==
    {ExecutorError, StreamError} \cup {Delivered(c) : c \in Contents}

QuoteKeys == {"ID", "Name"}

QuoteValues == {"debian", "Alpine Linux", "ubi8", "wolfi", "fedora", ""}

\* the content of one line KEY="value"
QuotedLine(key, value) == key \o "=\"" \o value \o "\""

QuotedOutcomes ==
    {Delivered(QuotedLine(k, v)) : k \in QuoteKeys, v \in QuoteValues}

\* s without its double quotes
RECURSIVE Unquote(_)
Unquote(s) ==
    IF Len(s) = 0 THEN ""
    ELSE (IF CharAt(s, 1) = "\"" THEN "" ELSE CharAt(s, 1))
         \o Unquote(SubSeq(s, 2, Len(s)))

SwapCaseChar(c) ==
    LET u == IndexIn(UpperLetters, c)
        l == IndexIn(LowerLetters, c)
    IN  IF u # 0 THEN CharAt(LowerLetters, u)
        ELSE IF l # 0 THEN CharAt(UpperLetters, l)
        ELSE c

RECURSIVE SwapCase(_)
SwapCase(s) ==
    IF Len(s) = 0 THEN ""
    ELSE SwapCaseChar(CharAt(s, 1)) \o SwapCase(SubSeq(s, 2, Len(s)))

\* s with the letter case of s[lo..hi] swapped
SwapSegment(s, lo, hi) ==
    SubSeq(s, 1, lo - 1) \o SwapCase(SubSeq(s, lo, hi)) \o SubSeq(s, hi + 1, Len(s))

Segments(s) == {<<lo, hi>> \in (1..Len(s)) \X (1..Len(s)) : lo <= hi}

Queries ==
    {[outcome |-> o, image |-> img, on |-> "none", lo |-> 1, hi |-> 0] :
        o \in ClassifyOutcomes, img \in Images}
    \cup
    UNION {UNION {{[outcome |-> o, image |-> img, on |-> "content",
                    lo |-> seg[1], hi |-> seg[2]] : seg \in Segments(o.content)} :
                  o \in ClassifyOutcomes} : img \in Images}
    \cup
    UNION {UNION {{[outcome |-> o, image |-> img, on |-> "image",
                    lo |-> seg[1], hi |-> seg[2]] : seg \in Segments(img)} :
                  o \in ClassifyOutcomes} : img \in Images}
    \cup
    {[outcome |-> o, image |-> img, on |-> "unquote", lo |-> 1, hi |-> 0] :
        o \in QuotedOutcomes, img \in Images}

VariantOutcome ==
    IF q.on = "content"
    THEN [q.outcome EXCEPT !.content = SwapSegment(@, q.lo, q.hi)]
    ELSE IF q.on = "unquote"
    THEN [q.outcome EXCEPT !.content = Unquote(@)]
    ELSE q.outcome

VariantImage ==
    IF q.on = "image" THEN SwapSegment(q.image, q.lo, q.hi) ELSE q.image

ClassifyInit ==
    /\ pc = "boot"
    /\ serving = FALSE
    /\ cycle = 0
    /\ pods = <<>>
    /\ pi = 0
    /\ ci = 0
    /\ namespaceMap = EmptyMap
    /\ imageMap = EmptyMap
    /\ baseTypeMap = EmptyMap
    /\ fipsCount = 0
    /\ podsPerNamespace = EmptyMap
    /\ containerImageCount = EmptyMap
    /\ containerBaseImageType = EmptyMap
    /\ containersFipsCompliant = 0
    /\ inspectLog = <<>>
    /\ outcomes = <<>>
    /\ cur = NoCycle
    /\ prev = NoCycle
    /\ scraped = NoScrape
    /\ exitStatus = -1
    /\ sleeps = 0
    /\ requests = <<>>
    /\ sinkOps = 0
    /\ q \in Queries
    /\ r = NoResult

Classify ==
    /\ ~r.done
    /\ r' = [done |-> TRUE,
             res  |-> getContainerDetails(q.outcome, q.image),
             vres |-> getContainerDetails(VariantOutcome, VariantImage)]
    /\ UNCHANGED <<pc, serving, cycle, locals, gauges, ghosts, scraped, trace, q>>

ClassifyNext == Classify

SpecClassify == ClassifyInit /\ [][ClassifyNext]_vars

(***************************************************************************)
(* Properties.                                                             *)
(***************************************************************************)
RECURSIVE SumMap(_)
SumMap(m) ==
    IF DOMAIN m = {} THEN 0
    ELSE LET k == CHOOSE x \in DOMAIN m : TRUE
         IN  m[k] + SumMap([x \in (DOMAIN m) \ {k} |-> m[x]])

RECURSIVE TotalContainers(_)
TotalContainers(items) ==
    IF Len(items) = 0 THEN 0
    ELSE Len(items[1].containers) + TotalContainers(Tail(items))

\* the current cycle has built its snapshot and is setting the gauges
Publishing == pc \in {"set_ns", "set_img", "set_base", "set_fips"}

\* the current cycle has returned after setting the gauges
Published == pc \in {"sleep", "idle"} /\ cycle > 0 /\ cur.at = cycle

Failed(outcome) == outcome.kind \in {"executor_error", "stream_error"}

\* C1: whenever /metrics is scraped, the gauge values it reads are exactly
\* the complete set written by the most recent cycle that published (the
\* registered empty set before the first publication).
C1_ScrapeSeesLastPublication == scraped.seen = scraped.expected

\* C2: a cycle whose List call returns an error leaves all four gauges
\* with exactly the label sets and values they had before it.
C2_FailedListLeavesGauges ==
    [][(pc = "idle" /\ pc' = "sleep") => Visible' = Visible]_vars

C2_Witness ==
    /\ pc = "sleep"
    /\ cur.at > 0
    /\ cur.at < cycle
    /\ DOMAIN podsPerNamespace # {}
    /\ Visible = cur.snap

\* C3: once a cycle whose List call succeeded has returned, every gauge
\* vector exports exactly the keys of that cycle's count table with the
\* counts as values and the scalar gauge equals the compliant count; no
\* label of an earlier cycle survives.
C3_GaugesEqualSnapshot == Published => Visible = cur.snap

C3_Witness ==
    /\ Published
    /\ prev.at > 0
    /\ \E ns \in DOMAIN prev.snap.ns :
          ns \notin DOMAIN cur.snap.ns /\ ns \notin DOMAIN podsPerNamespace
    /\ \E bt \in DOMAIN prev.snap.baseType :
          bt \notin DOMAIN cur.snap.baseType
          /\ bt \notin DOMAIN containerBaseImageType

\* C4: every failed inspection, whether the executor could not be created
\* or the stream failed, is classified Unknown with compliant equal to the
\* image-name heuristic on the container's image reference.
C4_FailedInspectionUsesImageHeuristic ==
    (r.done /\ Failed(q.outcome)) =>
        r.res = [baseType |-> "Unknown", isFips |-> isFipsFromImageName(q.image)]

Markers == {"fips_mode=yes", "fips=1"}

\* the content has a segment that, letter case aside, is a compliance marker
HasMarker(content) ==
    \E marker \in Markers : \E i \in 1..(Len(content) - Len(marker) + 1) :
        ToLower(SubSeq(content, i, i + Len(marker) - 1)) = marker

\* C5: for content that was read, compliant is true if and only if the
\* content holds a compliance marker in any letter case or the image-name
\* heuristic matches the image reference.
C5_CompliantIffMarkerOrImage ==
    (r.done /\ q.outcome.kind = "ok") =>
        (r.res.isFips <=>
            (HasMarker(q.outcome.content) \/ isFipsFromImageName(q.image)))

C5_Witness ==
    /\ r.done
    /\ q.outcome = Delivered("ID=alpine\nFIPS_MODE=yes")
    /\ q.image = PlainImage
    /\ r.res.isFips

\* C6: the content ID="ubuntu" / NAME="Ubuntu" with image myregistry/app:1.0
\* is classified with an Ubuntu tag (neither Other nor Unknown) and not
\* compliant.
C6_UbuntuScenario ==
    (r.done /\ q.outcome = Delivered(UbuntuContent) /\ q.image = PlainImage) =>
        (r.res.baseType \notin {"Other", "Unknown"} /\ ~r.res.isFips)

\* C7: swapping the letter case of any segment of the content or of the
\* image reference changes neither the base-type nor the compliance flag.
C7_CaseInsensitive == r.done => r.res = r.vres

C7_Witness ==
    /\ r.done
    /\ q.on = "content"
    /\ VariantOutcome # q.outcome
    /\ r.vres = [baseType |-> "RHEL", isFips |-> TRUE]

\* C8: in a cycle whose List call succeeded the namespace counts add up to
\* the number of pods listed, and the base-type counts and the image counts
\* both add up to the number of containers listed.
C8_AggregationSums ==
    (Publishing \/ Published) =>
        /\ SumMap(namespaceMap) = Len(pods)
        /\ SumMap(baseTypeMap) = TotalContainers(pods)
        /\ SumMap(imageMap) = TotalContainers(pods)

C8_Witness ==
    /\ Publishing
    /\ Len(pods) = 2
    /\ \E i \in 1..Len(outcomes) : Failed(outcomes[i])
    /\ \E i \in 1..Len(outcomes) : ~Failed(outcomes[i])
    /\ SumMap(baseTypeMap) = 2

\* C9 as stated: two published cycles over the same listing have the same
\* snapshot.
C9_SameListingSameSnapshot ==
    (Published /\ prev.at > 0 /\ cur.pods = prev.pods) => cur.snap = prev.snap

\* C9 amended: two published cycles over the same listing have the same
\* namespace and image tables, and the same base-type table and compliant
\* count too when every container's inspection had the same outcome.
C9_SameInputsSameSnapshot ==
    (Published /\ prev.at > 0 /\ cur.pods = prev.pods) =>
        /\ cur.snap.ns = prev.snap.ns
        /\ cur.snap.image = prev.snap.image
        /\ (cur.outcomes = prev.outcomes => cur.snap = prev.snap)

C9_Witness ==
    /\ Published
    /\ prev.at > 0
    /\ cur.pods = prev.pods
    /\ cur.outcomes = prev.outcomes
    /\ Len(cur.outcomes) = 2
    /\ cur.snap.fips > 0

\* C10: in a cycle whose List call succeeded getContainerDetails is called
\* exactly once for each container of each listed pod, failed inspections
\* included, before the gauges are set.
C10_EachContainerInspectedOnce ==
    (Publishing \/ Published) =>
        /\ Len(inspectLog) = TotalContainers(pods)
        /\ \A p \in 1..Len(pods) : \A c \in 1..Len(pods[p].containers) :
              Cardinality({i \in 1..Len(inspectLog) : inspectLog[i] = <<p, c>>}) = 1

C10_Witness ==
    /\ Published
    /\ Len(outcomes) = 2
    /\ Failed(outcomes[1])
    /\ Len(inspectLog) = 2

\* C11: at most one cycle is in flight: updateMetrics is called only when
\* the previous call has returned (the Poller is idle), and the Poller
\* becomes idle only from start-up or from the interval wait.
C11_OneCycleAtATime ==
    [][/\ cycle' # cycle =>
            (pc = "idle" /\ cycle' = cycle + 1 /\ pc' \in {"reset_ns", "sleep"})
       /\ (pc' = "idle" /\ pc # "idle") => pc \in {"boot", "sleep"}]_vars

C11_Witness ==
    /\ cycle = 2
    /\ pc = "stream"
    /\ cur.at = 1

C13_FailedStartupExits ==
    /\ pc = "exited" =>
          /\ exitStatus > 0
          /\ ~serving
          /\ scraped = NoScrape
          /\ cycle = 0
          /\ requests = <<>>
          /\ sinkOps = 0
    /\ pc # "exited" => exitStatus = -1

C13_Witness == pc = "exited" /\ exitStatus = 1

\* the containers of a listing, as <<pod index, container index>>
Slots(items) ==
    {s \in (1..Len(items)) \X (1..2) : s[2] <= Len(items[s[1]].containers)}

\* C14: the only requests sent to the cluster are the list of all pods and
\* the exec of cat /etc/os-release in a container of the current listing.
C14_OnlyListAndFixedExec ==
    \A i \in 1..Len(requests) :
        \/ i = 1 /\ requests[i] = ListRequest
        \/ /\ i > 1
           /\ requests[i].op = "exec"
           /\ requests[i].cmd = <<"cat", "/etc/os-release">>
           /\ \E s \in Slots(pods) :
                 /\ requests[i].ns = pods[s[1]].ns
                 /\ requests[i].pod = pods[s[1]].name
                 /\ requests[i].container = pods[s[1]].containers[s[2]].name

C14_Witness ==
    /\ cycle = 2
    /\ Len(requests) = 3
    /\ requests[3].container = "sidecar"

\* C15: no gauge operation of a cycle, neither a Reset nor a Set, is made
\* before every container has been inspected and the snapshot is built.
C15_NoSinkOpBeforeSnapshot == sinkOps > 0 => (Publishing \/ Published)

\* position of a container in the order the loops visit the listing
RECURSIVE Rank(_, _, _)
Rank(items, p, c) ==
    IF p = 1 THEN c ELSE Len(items[p - 1].containers) + Rank(items, p - 1, c)

\* the classification the cycle got for a container of its listing
ClassOf(s) == getContainerDetails(outcomes[Rank(pods, s[1], s[2])],
                                  pods[s[1]].containers[s[2]].image)

ImageOf(s) == pods[s[1]].containers[s[2]].image

\* the snapshot as the counts of the listing and of its classifications
ReferenceSnapshot ==
    LET classified == {<<s, ClassOf(s)>> : s \in Slots(pods)}
    IN  [ns       |-> [ns \in {pods[p].ns : p \in 1..Len(pods)} |->
                          Cardinality({p \in 1..Len(pods) : pods[p].ns = ns})],
         image    |-> [img \in {ImageOf(s) : s \in Slots(pods)} |->
                          Cardinality({s \in Slots(pods) : ImageOf(s) = img})],
         baseType |-> [bt \in {sc[2].baseType : sc \in classified} |->
                          Cardinality({sc \in classified : sc[2].baseType = bt})],
         fips     |-> Cardinality({sc \in classified : sc[2].isFips})]

Inspecting == pc \in {"pod", "container", "stream"}

\* C20: getContainerDetails is called in listing order, pod by pod and
\* container by container, and a call is made only when every earlier call
\* has returned.
C20_SequentialInListingOrder ==
    (Inspecting \/ Publishing \/ Published) =>
        /\ \A i \in 1..Len(inspectLog) :
              /\ inspectLog[i] \in Slots(pods)
              /\ Rank(pods, inspectLog[i][1], inspectLog[i][2]) = i
        /\ Len(inspectLog) - Len(outcomes) = (IF pc = "stream" THEN 1 ELSE 0)

C20_Witness ==
    /\ pc = "stream"
    /\ Len(inspectLog) = 2
    /\ Len(outcomes) = 1

(***************************************************************************)
(* The content read as KEY=value lines.                                    *)
(***************************************************************************)
\* position of the first "=" of the line, 0 when it has none
EqualsAt(line) ==
    IF \E i \in 1..Len(line) : CharAt(line, i) = "="
    THEN CHOOSE i \in 1..Len(line) :
            /\ CharAt(line, i) = "="
            /\ \A j \in 1..(i - 1) : CharAt(line, j) # "="
    ELSE 0

KeyOf(line) == ToLower(SubSeq(line, 1, EqualsAt(line) - 1))

ValueOf(line) ==
    ToLower(Trim(SubSeq(line, EqualsAt(line) + 1, Len(line)), "\""))

\* the lines of the content whose key is id or name, by position
IdentityLines(content) ==
    LET lines == Split(content, "\n")
    IN  {i \in 1..Len(lines) :
            EqualsAt(lines[i]) > 0 /\ KeyOf(lines[i]) \in {"id", "name"}}

FirstIdentityValue(content) ==
    LET first == CHOOSE i \in IdentityLines(content) :
                    \A j \in IdentityLines(content) : i <= j
    IN  ValueOf(Split(content, "\n")[first])

Rules ==
    <<<<"debian", "Debian">>, <<"alpine", "Alpine">>, <<"centos", "RHEL">>,
      <<"rhel", "RHEL">>, <<"ubi", "RHEL">>, <<"wolfi", "Chainguard">>>>

\* the tag of the first rule whose substring the value contains
FirstRule(value) ==
    LET matching == {k \in 1..Len(Rules) : Contains(value, Rules[k][1])}
    IN  IF matching = {} THEN "Other"
        ELSE Rules[CHOOSE k \in matching : \A j \in matching : k <= j][2]

C18_UnknownIffNoIdentityLine ==
    (r.done /\ q.outcome.kind = "ok") =>
        /\ r.res.baseType = "Unknown" <=> IdentityLines(q.outcome.content) = {}
        /\ IdentityLines(q.outcome.content) = {} =>
              (r.res.isFips <=>
                  (HasMarker(q.outcome.content) \/ isFipsFromImageName(q.image)))

C18_Witness ==
    /\ r.done
    /\ q.outcome = Delivered("VERSION=9\nFips=1")
    /\ q.image = PlainImage
    /\ r.res = [baseType |-> "Unknown", isFips |-> TRUE]

\* C19: the line KEY="value" and the line KEY=value get the same base-type.
C19_QuotesDoNotMatter ==
    (r.done /\ q.on = "unquote") => r.res.baseType = r.vres.baseType

C19_Witness ==
    /\ r.done
    /\ q.on = "unquote"
    /\ q.outcome = Delivered("ID=\"debian\"")
    /\ VariantOutcome = Delivered("ID=debian")
    /\ r.vres.baseType = "Debian"

\* C21: if every exec stream that is started returns, a cycle whose List
\* call succeeded publishes and the main loop gets back to idle; and as
\* long as a stream has not returned, the loop stays at it, no gauge
\* changes, nothing is published and no further cycle starts.
C21_CycleEndsIffStreamsReturn ==
    /\ ((pc = "stream") ~> (pc # "stream")) =>
          ((pc = "reset_ns") ~> (pc = "idle" /\ cur.at = cycle))
    /\ [][(pc = "stream" /\ outcomes' = outcomes) =>
             (pc' = "stream" /\ cycle' = cycle /\ cur' = cur /\ Visible' = Visible)]_vars

C21_Witness ==
    /\ pc = "idle"
    /\ cycle = 2
    /\ cur.at = 2
    /\ Len(outcomes) = 2
    /\ \E i \in 1..2 : outcomes[i] = StreamError

\* updateMetrics has returned from a cycle that met a failure: its List
\* call failed, or the cycle published with failed inspections
ReturnedDegraded ==
    /\ pc = "sleep"
    /\ \/ cur.at < cycle
       \/ \E i \in 1..Len(cur.outcomes) : Failed(cur.outcomes[i])

\* C22: after a cycle whose List call failed and after a cycle with failed
\* inspections the loop gets back to idle, where the next updateMetrics
\* call can start; idle is left only by a new cycle that sends a fresh
\* List request; and the process exits only from start-up, never from
\* inside the loop.
C22_LoopSurvivesFailures ==
    /\ ReturnedDegraded ~> (pc = "idle")
    /\ []((pc = "idle" /\ cycle < MaxCycles) => ENABLED ListPods)
    /\ [][/\ (pc = "idle" /\ pc' # "idle") =>
               (cycle' = cycle + 1 /\ requests' = <<ListRequest>>)
          /\ pc' = "exited" => pc = "boot"]_vars

C22_Witness ==
    /\ pc = "idle"
    /\ cycle = 2
    /\ prev.at = 0
    /\ cur.at = 2
    /\ Len(cur.outcomes) = 2
    /\ \A i \in 1..2 : Failed(cur.outcomes[i])

\* updateMetrics has returned from a cycle whose List call failed
Abandoned == pc \in {"sleep", "idle"} /\ cycle > 0 /\ cur.at < cycle

\* C23: a cycle whose List call failed has sent the List request and no
\* exec request, has made no gauge operation, has called
\* getContainerDetails for no container and has built no snapshot: the
\* count tables are the ones the last published cycle left.
C23_FailedListDoesNothingMore ==
    Abandoned =>
        /\ requests = <<ListRequest>>
        /\ sinkOps = 0
        /\ Snapshot = cur.snap
        /\ outcomes = cur.outcomes
        /\ Len(inspectLog) = Len(cur.outcomes)

C23_Witness ==
    /\ Abandoned
    /\ cycle = 2
    /\ cur.at = 1
    /\ Len(cur.outcomes) = 2
    /\ requests = <<ListRequest>>
    /\ fipsCount > 0

BaseTypes == {"Debian", "Alpine", "RHEL", "Chainguard", "Other", "Unknown"}

\* getContainerDetails over every inspection outcome and image reference
AllDetails ==
    {getContainerDetails(o, img) :
        o \in ClassifyOutcomes \cup QuotedOutcomes \cup StreamOutcomes,
        img \in Images}

ContainsFips(image) == Contains(ToLower(image), "fips")

\* C25: isFipsFromImageName is true exactly for the image references
\* whose lower-cased form contains "fips", for the image as given and with
\* the letter case of a segment swapped; a failed stream, whose compliance
\* is the heuristic alone, is compliant exactly for those images.
C25_HeuristicIsContainsFips ==
    r.done =>
        /\ isFipsFromImageName(q.image) <=> ContainsFips(q.image)
        /\ isFipsFromImageName(VariantImage) <=> ContainsFips(VariantImage)
        /\ q.outcome = StreamError =>
              /\ r.res.isFips <=> ContainsFips(q.image)
              /\ r.vres.isFips <=> ContainsFips(VariantImage)

C25_Witness ==
    /\ r.done
    /\ q.outcome = StreamError
    /\ q.on = "image"
    /\ q.image = "quay.io/UBI8-FIPS"
    /\ VariantImage = "quay.io/ubi8-fips"
    /\ r.res.isFips
    /\ r.vres.isFips

====
